---- MODULE Spec2Model ----
(***************************************************************************)
(* State-machine model of apple-kbd-dat-icon-extract.py:                   *)
(*   find_next_icon(data, start_pos)   the marker scanner                  *)
(*   extract_icons(datfile, output_dir) the checks, the driving loop, the  *)
(*                                      chunk reader and the file writes   *)
(* Byte offsets are 0-based as in the source; TLA+ sequences are 1-based,  *)
(* so byte i of a buffer b is b[i + 1].                                    *)
(***************************************************************************)
EXTENDS Integers, Sequences, FiniteSets, TLC

\* ICNS_HEADER = b'\x69\x63\x6e\x73'
ICNS_HEADER == <<105, 99, 110, 115>>

(***************************************************************************)
(* Bounds of the model.  The file contents are concatenations of at most   *)
(* MaxTokens byte strings taken from Tokens; find_next_icon on its own is  *)
(* explored on concatenations of at most MaxFindTokens of them.            *)
(***************************************************************************)
MaxTokens == 4

MaxFindTokens == 3

\* a file that is passed over twice holds at most MaxPassTokens of them
MaxPassTokens == 3

\* buffers made of whole records hold at most MaxRecords of them
MaxRecords == 3

Tokens ==
  { ICNS_HEADER,                       \* a marker
    ICNS_HEADER \o <<0, 0, 0, 4>>,     \* a marker and a chunk of 4 bytes
    <<0, 0, 0, 0>>,                    \* length field 0
    <<0, 0, 0, 8>>,                    \* length field 8
    <<255, 255, 255, 255>>,            \* length field 0xFFFFFFFF
    <<105>> }                          \* one byte, the first byte of a marker

RECURSIVE BuffersOf(_)
BuffersOf(n) ==
  IF n = 0 THEN { <<>> }
  ELSE { b \o t : b \in BuffersOf(n - 1), t \in Tokens }

Buffers == UNION { BuffersOf(n) : n \in 0..MaxTokens }

FindBuffers == UNION { BuffersOf(n) : n \in 0..MaxFindTokens }

PassBuffers == UNION { BuffersOf(n) : n \in 0..MaxPassTokens }

\* a well-formed record: the marker, then a chunk that begins with its own
\* byte length as a 4-byte big-endian field
Record(payload) == ICNS_HEADER \o <<0, 0, 0, 4 + Len(payload)>> \o payload

Payloads ==
  { <<>>, <<1, 2>>, <<105, 99>>, <<1, 2, 3, 4>>, ICNS_HEADER, <<0, 0, 0, 4>> }

RECURSIVE RecordBuffersOf(_)
RecordBuffersOf(n) ==
  IF n = 0 THEN { <<>> }
  ELSE { b \o Record(p) : b \in RecordBuffersOf(n - 1), p \in Payloads }

RecordBuffers == UNION { RecordBuffersOf(n) : n \in 1..MaxRecords }

(***************************************************************************)
(* Python and library primitives used by the source.                       *)
(***************************************************************************)
Min(a, b) == IF a < b THEN a ELSE b

\* a slice bound k as Python normalises it for a sequence of length len:
\* a negative bound counts from the end, and both are clamped to 0 .. len
SliceBound(k, len) ==
  IF k < 0 THEN (IF k + len < 0 THEN 0 ELSE k + len) ELSE Min(k, len)

\* s[i:j]
Slice(s, i, j) ==
  LET a == SliceBound(i, Len(s))
      b == SliceBound(j, Len(s))
  IN  IF a >= b THEN <<>> ELSE SubSeq(s, a + 1, b)

\* the byte indexes s[i:j] reads
SliceReads(s, i, j) == SliceBound(i, Len(s)) .. (SliceBound(j, Len(s)) - 1)

\* the unpacking with "<I": little-endian
unpack_I_LittleEndian(b) ==
  [hi |-> b[4] * 256 + b[3], lo |-> b[2] * 256 + b[1]]

\* struct.unpack(">I", b)[0] for a 4-byte b.  Python integers are unbounded
\* and the value can reach 2^32 - 1, so it is kept as two 16-bit limbs:
\* the value is hi * 65536 + lo.
unpack_I(b) == [hi |-> b[1] * 256 + b[2], lo |-> b[3] * 256 + b[4]]

\* struct.unpack raises struct.error unless b has exactly 4 bytes
unpack_error(b) == Len(b) # 4

\* the test with pos left out: icon_data_size > len(data)
ExceedsFile_NoPos(p, size, len) ==
  \/ size.hi > len \div 65536
  \/ size.hi = len \div 65536 /\ size.lo > len % 65536

\* the test with >= for >
ExceedsFile_Geq(p, size, len) ==
  LET room == len - p
  IN  \/ size.hi > room \div 65536
      \/ size.hi = room \div 65536 /\ size.lo >= room % 65536

\* pos + icon_data_size > len(data), on the limbs of icon_data_size
ExceedsFile(p, size, len) ==
  LET room == len - p
  IN  \/ size.hi > room \div 65536
      \/ size.hi = room \div 65536 /\ size.lo > room % 65536

\* the integer held by the limbs (used once the size is known to fit)
ToInt(size) == size.hi * 65536 + size.lo

\* the decimal digits of n
RECURSIVE Digits(_)
Digits(n) == IF n < 10 THEN <<n>> ELSE Digits(n \div 10) \o <<n % 10>>

\* f"{n:04d}"
Format04d(n) ==
  LET d == Digits(n)
  IN  IF Len(d) >= 4 THEN d ELSE [i \in 1..(4 - Len(d)) |-> 0] \o d

\* the name numbered from 1, as the log message is
icon_filename_OneBased(count) == Format04d(count + 1)

\* f"icon_{icon_count:04d}.icns": the name is represented by its digits
icon_filename_of(count) == Format04d(count)

\* the test against a length one byte too short
TooSmall_OffByOne(d) == Len(d) < Len(ICNS_HEADER) - 1

\* pos += 2 in find_next_icon
NextScanPos_Two(p) == p + 2

\* pos += 1 in find_next_icon
NextScanPos(p) == p + 1

\* len(data) < len(ICNS_HEADER)
TooSmall(d) == Len(d) < Len(ICNS_HEADER)

\* the position of the marker itself
AfterMarker_AtMarker(p) == p

\* pos + len(ICNS_HEADER), the value find_next_icon returns on a match
AfterMarker(p) == p + Len(ICNS_HEADER)

\* pos = icon_data_size
Advance_Assign(p, n) == n

\* pos -= icon_data_size
Advance_Back(p, n) == p - n

\* pos += 1: the scan resumes one byte after the start of the chunk
Advance_StartPlusOne(p, n) == p + 1

\* pos += icon_data_size
Advance(p, n) == p + n

\* the slice without its length field
icon_data_Stripped(d, p, n) == Slice(d, p + 4, p + n)

\* icon_data = data[pos:pos + icon_data_size]
icon_data_of(d, p, n) == Slice(d, p, p + n)

(***************************************************************************)
(* State.                                                                  *)
(***************************************************************************)
VARIABLES
  file_exists,      \* os.path.exists(datfile)
  file_readable,    \* os.access(datfile, os.R_OK)
  content,          \* the bytes of datfile
  output_dir_exists,\* os.path.exists(output_dir)
  data,             \* extract_icons: data
  pos,              \* extract_icons: pos, the cursor
  icon_count,       \* extract_icons: icon_count
  progress,         \* the total handed to progress.update
  pc,               \* position in extract_icons / find_next_icon
  start_pos,        \* find_next_icon: argument start_pos
  fpos,             \* find_next_icon: local pos
  ret,              \* find_next_icon: returned value
  reads,            \* byte indexes of data read by the last step
  artifacts,        \* files opened in output_dir, in order of creation
  chunks,           \* byte ranges that passed the chunk reader's checks
  log,              \* calls of logging.warning / error / info
  result,           \* value returned by extract_icons: "True", "False" ("none" before)
  halt,             \* the statement that ended the pass ("none" before)
  iterations,       \* number of times the body of the while loop was entered
  prior             \* the outcome of an earlier pass over the same file

vars == << file_exists, file_readable, content, output_dir_exists, data, pos,
           icon_count, progress, pc, start_pos, fpos, ret, reads, artifacts,
           chunks, log, result, halt, iterations, prior >>

Entry(level, msg, n) == [level |-> level, msg |-> msg, n |-> n]

(***************************************************************************)
(* Initial states: extract_icons is about to be called on a file system    *)
(* where datfile is missing, or unreadable, or holds any of Buffers.       *)
(***************************************************************************)
NoPrior ==
  [done |-> FALSE, chunks |-> <<>>, emitted |-> <<>>, count |-> 0,
   halt |-> "none", result |-> "none"]

Locals ==
  /\ prior = NoPrior
  /\ data = <<>>
  /\ pos = 0
  /\ icon_count = 0
  /\ progress = 0
  /\ start_pos = 0
  /\ fpos = 0
  /\ ret = 0
  /\ reads = {}
  /\ artifacts = <<>>
  /\ chunks = <<>>
  /\ log = <<>>
  /\ result = "none"
  /\ halt = "none"
  /\ iterations = 0

Init ==
  /\ \/ file_exists = FALSE /\ file_readable = FALSE /\ content = <<>>
     \/ file_exists = TRUE /\ file_readable \in BOOLEAN /\ content \in Buffers
  /\ output_dir_exists \in BOOLEAN
  /\ pc = "start"
  /\ Locals

(***************************************************************************)
(* extract_icons, lines 51-79: the checks on datfile, the creation of      *)
(* output_dir, the read of the file and the initialisation of the pass.    *)
(***************************************************************************)
ReturnFalse(msg) ==
  /\ log' = Append(log, Entry("ERROR", msg, 0))
  /\ result' = "False"
  /\ halt' = "SourceUnavailable"
  /\ pc' = "returned"

\* the initialisation that leaves icon_count as it is
Start_KeepsCount ==
  /\ pc = "start"
  /\ IF ~file_exists
     THEN /\ ReturnFalse("does not exist")
          /\ UNCHANGED << output_dir_exists, data >>
     ELSE IF ~file_readable
     THEN /\ ReturnFalse("cannot be read")
          /\ UNCHANGED << output_dir_exists, data >>
     ELSE IF Len(content) = 0
     THEN /\ ReturnFalse("is empty")
          /\ UNCHANGED << output_dir_exists, data >>
     ELSE /\ output_dir_exists' = TRUE
          /\ data' = content
          /\ LET l1 == IF output_dir_exists THEN log
                       ELSE Append(log, Entry("INFO", "Creating output directory", 0))
             IN  IF TooSmall(content)
                 THEN /\ log' = Append(l1, Entry("ERROR", "too small", 0))
                      /\ result' = "False"
                      /\ halt' = "SourceUnavailable"
                      /\ pc' = "returned"
                 ELSE /\ log' = Append(l1, Entry("INFO", "Starting icon extraction", 0))
                      /\ pc' = "SCANNING"
                      /\ UNCHANGED << result, halt >>
  /\ pos' = 0
  /\ reads' = {}
  /\ UNCHANGED << prior, file_exists, file_readable, content, progress, start_pos,
                  fpos, ret, artifacts, chunks, iterations, icon_count >>

Start ==
  /\ pc = "start"
  /\ IF ~file_exists
     THEN /\ ReturnFalse("does not exist")
          /\ UNCHANGED << output_dir_exists, data >>
     ELSE IF ~file_readable
     THEN /\ ReturnFalse("cannot be read")
          /\ UNCHANGED << output_dir_exists, data >>
     ELSE IF Len(content) = 0
     THEN /\ ReturnFalse("is empty")
          /\ UNCHANGED << output_dir_exists, data >>
     ELSE /\ output_dir_exists' = TRUE
          /\ data' = content
          /\ LET l1 == IF output_dir_exists THEN log
                       ELSE Append(log, Entry("INFO", "Creating output directory", 0))
             IN  IF TooSmall(content)
                 THEN /\ log' = Append(l1, Entry("ERROR", "too small", 0))
                      /\ result' = "False"
                      /\ halt' = "SourceUnavailable"
                      /\ pc' = "returned"
                 ELSE /\ log' = Append(l1, Entry("INFO", "Starting icon extraction", 0))
                      /\ pc' = "SCANNING"
                      /\ UNCHANGED << result, halt >>
  /\ pos' = 0
  /\ icon_count' = 0
  /\ reads' = {}
  /\ UNCHANGED << prior, file_exists, file_readable, content, progress, start_pos,
                  fpos, ret, artifacts, chunks, iterations >>

(***************************************************************************)
(* extract_icons, lines 81-82: the test of the while loop and the call of  *)
(* find_next_icon(data, pos).                                              *)
(***************************************************************************)
While ==
  /\ pc = "SCANNING"
  /\ IF pos < Len(data)
     THEN /\ start_pos' = pos
          /\ fpos' = pos
          /\ iterations' = iterations + 1
          /\ pc' = "find_next_icon"
          /\ UNCHANGED halt
     ELSE /\ pc' = "HALTED"
          /\ halt' = "Exhausted"
          /\ UNCHANGED << start_pos, fpos, iterations >>
  /\ reads' = {}
  /\ UNCHANGED << prior, file_exists, file_readable, content, output_dir_exists,
                  data, pos, icon_count, progress, ret, artifacts, chunks,
                  log, result >>

(***************************************************************************)
(* find_next_icon, lines 42-46: one test of the while loop, with the       *)
(* comparison and the return or the increment that follows it.             *)
(***************************************************************************)
FindIter ==
  /\ pc = "find_next_icon"
  /\ IF fpos < Len(data)
     THEN /\ reads' = SliceReads(data, fpos, fpos + Len(ICNS_HEADER))
          /\ IF Slice(data, fpos, fpos + Len(ICNS_HEADER)) = ICNS_HEADER
             THEN /\ ret' = AfterMarker(fpos)
                  /\ pc' = "find_return"
                  /\ UNCHANGED fpos
             ELSE /\ fpos' = NextScanPos(fpos)
                  /\ UNCHANGED << ret, pc >>
     ELSE /\ ret' = -1
          /\ pc' = "find_return"
          /\ reads' = {}
          /\ UNCHANGED fpos
  /\ UNCHANGED << prior, file_exists, file_readable, content, output_dir_exists,
                  data, pos, icon_count, progress, start_pos, artifacts,
                  chunks, log, result, halt, iterations >>

(***************************************************************************)
(* extract_icons, lines 82-84: pos takes the value find_next_icon          *)
(* returned; -1 leaves the loop.                                           *)
(***************************************************************************)
\* the assignment without the test for -1
Found_NoCheck ==
  /\ pc = "find_return"
  /\ pos' = ret
  /\ pc' = "EXTRACTING"
  /\ reads' = {}
  /\ UNCHANGED << prior, file_exists, file_readable, content, output_dir_exists,
                  data, icon_count, progress, start_pos, fpos, ret,
                  artifacts, chunks, log, result, halt, iterations >>

Found ==
  /\ pc = "find_return"
  /\ pos' = ret
  /\ IF ret = -1
     THEN pc' = "HALTED" /\ halt' = "NotFound"
     ELSE pc' = "EXTRACTING" /\ UNCHANGED halt
  /\ reads' = {}
  /\ UNCHANGED << prior, file_exists, file_readable, content, output_dir_exists,
                  data, icon_count, progress, start_pos, fpos, ret,
                  artifacts, chunks, log, result, iterations >>

(***************************************************************************)
(* extract_icons, lines 87-115: the chunk reader and the write of the      *)
(* artifact.                                                               *)
(***************************************************************************)
\* logging.warning(msg); continue
Break_Continue(reason, msg) ==
  /\ log' = Append(log, Entry("WARNING", msg, 0))
  /\ pc' = "SCANNING"
  /\ UNCHANGED << pos, icon_count, progress, artifacts, chunks, result, halt >>

\* logging.warning(msg); break
Break(reason, msg) ==
  /\ log' = Append(log, Entry("WARNING", msg, 0))
  /\ halt' = reason
  /\ pc' = "HALTED"
  /\ UNCHANGED << pos, icon_count, progress, artifacts, chunks, result >>

\* the write whose IOError is logged and then passed over: continue for
\* return False
Save_Continue(n, outcome, k) ==
  LET icon_data == icon_data_of(data, pos, n)
      name == icon_filename_of(icon_count)
      File(bytes, done) == [name |-> name, bytes |-> bytes, written |-> done]
  IN  /\ chunks' = Append(chunks, [start |-> pos, size |-> n])
      /\ pc' = "SCANNING"
      /\ UNCHANGED << result, halt >>
      /\ IF outcome = "ok"
         THEN /\ artifacts' = Append(artifacts, File(icon_data, TRUE))
              /\ log' = Append(log, Entry("INFO", "Extracted icon", icon_count + 1))
              /\ icon_count' = icon_count + 1
              /\ pos' = Advance(pos, n)
              /\ progress' = progress + n
         ELSE /\ artifacts' = IF outcome = "open" THEN artifacts
                              ELSE Append(artifacts, File(SubSeq(icon_data, 1, k), FALSE))
              /\ log' = Append(log, Entry("ERROR", "Failed to write icon file", 0))
              /\ UNCHANGED << pos, icon_count, progress >>

\* lines 104-115 for the slice icon_data = data[pos:pos + n].  The open or
\* the write may raise IOError: "open" leaves no file, "write" leaves the
\* file with the first k bytes of icon_data.
Save(n, outcome, k) ==
  LET icon_data == icon_data_of(data, pos, n)
      name == icon_filename_of(icon_count)
      File(bytes, done) == [name |-> name, bytes |-> bytes, written |-> done]
  IN  /\ chunks' = Append(chunks, [start |-> pos, size |-> n])
      /\ IF outcome = "ok"
         THEN /\ artifacts' = Append(artifacts, File(icon_data, TRUE))
              /\ log' = Append(log, Entry("INFO", "Extracted icon", icon_count + 1))
              /\ icon_count' = icon_count + 1
              /\ pos' = Advance(pos, n)
              /\ progress' = progress + n
              /\ pc' = "SCANNING"
              /\ UNCHANGED << result, halt >>
         ELSE /\ artifacts' = IF outcome = "open" THEN artifacts
                              ELSE Append(artifacts, File(SubSeq(icon_data, 1, k), FALSE))
              /\ log' = Append(log, Entry("ERROR", "Failed to write icon file", 0))
              /\ result' = "False"
              /\ halt' = "ArtifactWriteFailure"
              /\ pc' = "returned"
              /\ UNCHANGED << pos, icon_count, progress >>

Extract ==
  /\ pc = "EXTRACTING"
  /\ IF pos + 4 > Len(data)
     THEN /\ Break("IncompleteHeader", "Incomplete icon data found")
          /\ reads' = {}
     ELSE LET header == Slice(data, pos, pos + 4)
          IN  IF unpack_error(header)
              THEN /\ Break("InvalidSize", "Invalid icon size detected")
                   /\ reads' = SliceReads(data, pos, pos + 4)
              ELSE LET icon_data_size == unpack_I(header)
                   IN  IF ExceedsFile(pos, icon_data_size, Len(data))
                       THEN /\ Break("OversizedChunk", "Icon data size exceeds file length")
                            /\ reads' = SliceReads(data, pos, pos + 4)
                       ELSE /\ \E outcome \in {"ok", "open", "write"} :
                                 \E k \in 0..ToInt(icon_data_size) :
                                    /\ outcome # "write" => k = 0
                                    /\ outcome = "write" => k < ToInt(icon_data_size)
                                    /\ Save(ToInt(icon_data_size), outcome, k)
                            /\ reads' = SliceReads(data, pos, pos + 4)
                                          \cup SliceReads(data, pos, pos + ToInt(icon_data_size))
  /\ UNCHANGED << prior, file_exists, file_readable, content, output_dir_exists,
                  data, start_pos, fpos, ret, iterations >>

(***************************************************************************)
(* extract_icons, lines 117-118: the report after the loop.                *)
(***************************************************************************)
\* the report with return False
Report_ReturnsFalse ==
  /\ pc = "HALTED"
  /\ log' = Append(log, Entry("INFO", "Extraction complete", icon_count))
  /\ result' = "False"
  /\ pc' = "returned"
  /\ reads' = {}
  /\ UNCHANGED << prior, file_exists, file_readable, content, output_dir_exists,
                  data, pos, icon_count, progress, start_pos, fpos, ret,
                  artifacts, chunks, halt, iterations >>

Report ==
  /\ pc = "HALTED"
  /\ log' = Append(log, Entry("INFO", "Extraction complete", icon_count))
  /\ result' = "True"
  /\ pc' = "returned"
  /\ reads' = {}
  /\ UNCHANGED << prior, file_exists, file_readable, content, output_dir_exists,
                  data, pos, icon_count, progress, start_pos, fpos, ret,
                  artifacts, chunks, halt, iterations >>

Next == Start \/ While \/ FindIter \/ Found \/ Extract \/ Report

Spec == Init /\ [][Next]_vars

\* the pass is sequential code: a step that can be taken is taken
FairSpec == Spec /\ WF_vars(Next)

(***************************************************************************)
(* extract_icons called on a readable file made of whole records.          *)
(***************************************************************************)
RecordInit ==
  /\ file_exists = TRUE
  /\ file_readable = TRUE
  /\ content \in RecordBuffers
  /\ output_dir_exists \in BOOLEAN
  /\ pc = "start"
  /\ Locals

RecordSpec == RecordInit /\ [][Next]_vars

(***************************************************************************)
(* extract_icons called a second time on the same datfile and output_dir   *)
(* (main, line 149, run again).  The outcome of the first call is kept in  *)
(* prior; the file system is as the first call left it, and the locals of  *)
(* the new call are set by its own lines 74-80.                            *)
(***************************************************************************)
Rerun ==
  /\ pc = "returned"
  /\ ~prior.done
  /\ prior' = [done |-> TRUE, chunks |-> chunks,
               emitted |-> SelectSeq(artifacts, LAMBDA a : a.written),
               count |-> icon_count, halt |-> halt, result |-> result]
  /\ pc' = "start"
  /\ artifacts' = <<>>
  /\ chunks' = <<>>
  /\ log' = <<>>
  /\ result' = "none"
  /\ halt' = "none"
  /\ iterations' = 0
  /\ progress' = 0
  /\ reads' = {}
  /\ UNCHANGED << file_exists, file_readable, content, output_dir_exists,
                  data, pos, icon_count, start_pos, fpos, ret >>

TwoPassInit ==
  /\ \/ file_exists = FALSE /\ file_readable = FALSE /\ content = <<>>
     \/ file_exists = TRUE /\ file_readable \in BOOLEAN /\ content \in PassBuffers
  /\ output_dir_exists \in BOOLEAN
  /\ pc = "start"
  /\ Locals

TwoPassNext == Next \/ Rerun

TwoPassSpec == TwoPassInit /\ [][TwoPassNext]_vars

(***************************************************************************)
(* find_next_icon on its own: called with any buffer of FindBuffers and    *)
(* any start_pos with 0 <= start_pos <= len(data).                         *)
(***************************************************************************)
FindInit ==
  /\ file_exists = TRUE
  /\ file_readable = TRUE
  /\ output_dir_exists = TRUE
  /\ content \in FindBuffers
  /\ data = content
  /\ start_pos \in 0..Len(content)
  /\ fpos = start_pos
  /\ pc = "find_next_icon"
  /\ pos = 0
  /\ icon_count = 0
  /\ progress = 0
  /\ ret = 0
  /\ reads = {}
  /\ artifacts = <<>>
  /\ chunks = <<>>
  /\ log = <<>>
  /\ result = "none"
  /\ halt = "none"
  /\ iterations = 0
  /\ prior = NoPrior

FindNext == FindIter

FindSpec == FindInit /\ [][FindNext]_vars

(***************************************************************************)
(* Properties.  The definitions of this part are written from the claims,  *)
(* on the bytes of the buffer, and do not use the operators of the model.  *)
(***************************************************************************)
\* the marker occupies the bytes p .. p+3 of d
HasMarkerAt(d, p) ==
  /\ 0 <= p
  /\ p + 4 <= Len(d)
  /\ \A i \in 1..4 : d[p + i] = ICNS_HEADER[i]

\* n is the big-endian unsigned 32-bit value of the bytes off .. off+3 of d
IsBE32(d, off, n) ==
  /\ off + 4 <= Len(d)
  /\ d[off + 1] * 256 + d[off + 2] = n \div 65536
  /\ d[off + 3] * 256 + d[off + 4] = n % 65536

\* the chunk whose length field starts at off lies within d
ChunkFits(d, off) == \E n \in 0..(Len(d) - off) : IsBE32(d, off, n)

\* the files whose write completed
Emitted == SelectSeq(artifacts, LAMBDA a : a.written)

\* C1: every accepted chunk satisfies 0 <= start and start + chunk_size <=
\* len(buffer), and no step of find_next_icon or of the chunk reader reads a
\* byte index >= len(buffer).
C1_NoOverread ==
  /\ \A k \in 1..Len(chunks) :
        /\ 0 <= chunks[k].start
        /\ chunks[k].start + chunks[k].size <= Len(data)
  /\ \A i \in reads : 0 <= i /\ i < Len(data)

\* a non-empty chunk that ends exactly at the end of the buffer was accepted
C1_Witness ==
  \E k \in 1..Len(chunks) :
     /\ chunks[k].size > 0
     /\ chunks[k].start + chunks[k].size = Len(data)

\* C2: the artifact of an accepted chunk at offset start has exactly
\* chunk_size bytes, chunk_size being the big-endian value of
\* buffer[start .. start+4), and equals buffer[start .. start+chunk_size),
\* length field included.
C2_ArtifactIsChunk ==
  \A k \in 1..Len(artifacts) :
     artifacts[k].written =>
        LET a == artifacts[k].bytes
            start == chunks[k].start
        IN  /\ IsBE32(data, start, Len(a))
            /\ \A i \in 1..Len(a) : a[i] = data[start + i]

\* an artifact of 8 bytes, length field and payload, was written
C2_Witness ==
  \E k \in 1..Len(artifacts) :
     artifacts[k].written /\ Len(artifacts[k].bytes) = 8

\* the chunk reader fails at the offset pos
ReaderFails == pos + 4 > Len(data) \/ ~ChunkFits(data, pos)

\* C3: when the chunk reader fails the pass goes to HALTED and stays halted:
\* no step after the failure emits an artifact or changes the count.
C3_FailureIsTerminal ==
  [][ /\ (pc = "EXTRACTING" /\ ReaderFails) =>
            /\ pc' = "HALTED"
            /\ artifacts' = artifacts
            /\ icon_count' = icon_count
      /\ pc = "HALTED" =>
            /\ pc' = "returned"
            /\ artifacts' = artifacts
            /\ icon_count' = icon_count
      /\ pc = "returned" => pc' = "returned" /\ artifacts' = artifacts
    ]_vars

\* the pass has ended on an oversized chunk after emitting an artifact, and a
\* marker followed by a well-formed chunk lies after the point of failure
C3_Witness ==
  /\ pc = "returned"
  /\ halt = "OversizedChunk"
  /\ Len(artifacts) >= 1
  /\ \E p \in pos..Len(data) :
        /\ HasMarkerAt(data, p)
        /\ \E n \in 4..(Len(data) - p - 4) : IsBE32(data, p + 4, n)

\* C4: the outcome of the chunk reader at the offset the scanner returned is
\* IncompleteHeader iff offset + 4 > len(buffer), else OversizedChunk iff
\* offset + chunk_size > len(buffer), else the chunk is accepted; the buffer
\* marker ++ 0xFFFFFFFF gives no chunk and halts with OversizedChunk.
C4_ReaderOutcome ==
  /\ [][ pc = "EXTRACTING" =>
           IF pos + 4 > Len(data)
           THEN halt' = "IncompleteHeader" /\ chunks' = chunks
           ELSE IF ~ChunkFits(data, pos)
           THEN halt' = "OversizedChunk" /\ chunks' = chunks
           ELSE /\ halt' \in {"none", "ArtifactWriteFailure"}
                /\ Len(chunks') = Len(chunks) + 1
                /\ chunks'[Len(chunks')].start = pos
                /\ IsBE32(data, pos, chunks'[Len(chunks')].size)
       ]_vars
  /\ [](  (data = ICNS_HEADER \o <<255, 255, 255, 255>> /\ pc \in {"HALTED", "returned"})
          => (halt = "OversizedChunk" /\ chunks = <<>> /\ artifacts = <<>>
              /\ icon_count = 0) )

\* the pass over marker ++ 0xFFFFFFFF has ended
C4_Witness ==
  /\ pc = "returned"
  /\ data = ICNS_HEADER \o <<255, 255, 255, 255>>
  /\ halt = "OversizedChunk"

\* the positions >= start_pos where a marker begins
MarkersFrom(d, from) == { p \in from..Len(d) : HasMarkerAt(d, p) }

\* C5: find_next_icon(buffer, start_pos) returns p + 4 for the least
\* p >= start_pos where the marker begins, -1 exactly when there is none, and
\* leaves the buffer as it was.
C5_FindNextIcon ==
  /\ data = content
  /\ pc = "find_return" =>
        LET M == MarkersFrom(data, start_pos)
        IN  IF M = {} THEN ret = -1
            ELSE ret = (CHOOSE p \in M : \A q \in M : p <= q) + 4

\* find_next_icon has returned a match it reached from a start_pos > 0 after
\* stepping over positions that do not match
C5_Witness ==
  /\ pc = "find_return"
  /\ start_pos > 0
  /\ ret > start_pos + 4

\* C6: for every buffer, chunks of decoded size 0 included, a pass reaches
\* HALTED, after at most len(buffer) iterations of the scan/extract loop.
\* (A failed write leaves the loop by return False; it ends the pass too.)
C6_Terminates ==
  /\ [](iterations <= Len(data))
  /\ (pc = "SCANNING") ~> (pc = "HALTED" \/ halt = "ArtifactWriteFailure")

\* a pass that accepted a chunk of size 0 and went on iterating has halted
C6_Witness ==
  /\ pc = "HALTED"
  /\ iterations >= 2
  /\ \E k \in 1..Len(chunks) : chunks[k].size = 0

\* offset + chunk_size of the k-th accepted chunk
next_offset(k) == chunks[k].start + chunks[k].size

\* C7: when the accepted chunks have chunk_size >= 1, next_offset of each
\* accepted chunk is strictly greater than next_offset of the one before it.
C7_NextOffsetIncreases ==
  (\A k \in 1..Len(chunks) : chunks[k].size >= 1) =>
     \A k \in 2..Len(chunks) : next_offset(k) > next_offset(k - 1)

\* two chunks of at least one byte each were accepted
C7_Witness ==
  /\ Len(chunks) >= 2
  /\ \A k \in 1..Len(chunks) : chunks[k].size >= 1

\* the two kinds of pass C8 is about
CompletedByExhaustion == halt \in {"NotFound", "Exhausted"}

HaltedOnMalformed == halt \in {"IncompleteHeader", "OversizedChunk"}

\* C8 as claimed: the status extract_icons returns for a pass that exhausted
\* the buffer (True, which main takes for success) is not the status it
\* returns for a pass that halted early on malformed data.
C8_StatusTellsApart ==
  pc = "returned" =>
     /\ CompletedByExhaustion => result = "True"
     /\ HaltedOnMalformed => result # "True"

\* C8 as amended: extract_icons returns True for both kinds of pass; they
\* differ only in the log, where the pass that halted early on malformed
\* data has a WARNING entry and the pass that exhausted the buffer has none.
C8_SameStatusWarningLogged ==
  (pc = "returned" /\ (CompletedByExhaustion \/ HaltedOnMalformed)) =>
     /\ result = "True"
     /\ HaltedOnMalformed <=> (\E i \in 1..Len(log) : log[i].level = "WARNING")

\* a pass that halted early on malformed data has returned True
C8_Witness ==
  /\ pc = "returned"
  /\ HaltedOnMalformed
  /\ result = "True"

\* what C9 requires of an input: no scanning, no artifact, the call fails
FailsBeforeScanning ==
  /\ pc \in {"start", "returned"}
  /\ artifacts = <<>>
  /\ pc = "returned" => (result = "False" /\ halt = "SourceUnavailable")

\* C9 as claimed: an input of size <= 4 bytes fails with SourceUnavailable
\* before scanning starts.
C9_SmallInputFails == Len(content) <= 4 => FailsBeforeScanning

\* C9 as amended: an input of size < 4 bytes (the empty input included) fails
\* with SourceUnavailable before scanning starts; an input of exactly 4 bytes
\* passes the size check and is scanned.
C9_TooSmallInputFails == Len(content) < 4 => FailsBeforeScanning

\* extract_icons has returned False on a readable file of 3 bytes
C9_Witness ==
  /\ pc = "returned"
  /\ file_exists
  /\ file_readable
  /\ Len(content) = 3
  /\ result = "False"

\* the number a sequence of decimal digits denotes
RECURSIVE ParseDec(_)
ParseDec(d) ==
  IF d = <<>> THEN 0
  ELSE 10 * ParseDec(SubSeq(d, 1, Len(d) - 1)) + d[Len(d)]

\* C10: in every state the artifacts emitted so far carry the indexes
\* 0 .. count-1, each once, the k-th accepted chunk in buffer order carrying
\* index k; the count reported after HALTED is the number of artifacts.
C10_SequentialIndexes ==
  /\ Len(Emitted) = icon_count
  /\ \A k \in 1..Len(Emitted) :
        /\ ParseDec(Emitted[k].name) = k - 1
        /\ Emitted[k].bytes =
              [i \in 1..chunks[k].size |-> data[chunks[k].start + i]]
        /\ k > 1 => chunks[k - 1].start < chunks[k].start
  /\ (pc = "returned" /\ result = "True") =>
        /\ log[Len(log)].msg = "Extraction complete"
        /\ log[Len(log)].n = Len(Emitted)

\* a pass that emitted at least two artifacts has reported its count
C10_Witness ==
  /\ pc = "returned"
  /\ result = "True"
  /\ Len(Emitted) >= 2

\* the chunks of a buffer made of whole records, from offset off on
RECURSIVE RecordsOf(_, _)
RecordsOf(d, off) ==
  IF off >= Len(d) THEN <<>>
  ELSE LET start == off + 4
           n == CHOOSE m \in 0..Len(d) : IsBE32(d, start, m)
       IN  <<[start |-> start, size |-> n]>> \o RecordsOf(d, start + n)

\* marker ++ 0x00000008 ++ 4 bytes ++ marker ++ 0x00000006 ++ 2 bytes
ExampleBuffer == Record(<<1, 2, 3, 4>>) \o Record(<<1, 2>>)

\* C11: on a buffer that is a concatenation of n >= 1 well-formed records a
\* pass whose writes succeed extracts exactly the n chunks in buffer order,
\* ends with the cursor at len(buffer) and halts normally, not on an error;
\* the example buffer gives chunks of 8 and 6 bytes.
C11_RecordsExtracted ==
  (pc \in {"HALTED", "returned"} /\ halt # "ArtifactWriteFailure") =>
     /\ chunks = RecordsOf(data, 0)
     /\ Len(Emitted) = Len(chunks)
     /\ \A k \in 1..Len(Emitted) :
           Emitted[k].bytes =
              [i \in 1..chunks[k].size |-> data[chunks[k].start + i]]
     /\ pos = Len(data)
     /\ CompletedByExhaustion
     /\ data = ExampleBuffer =>
           /\ Len(Emitted) = 2
           /\ Len(Emitted[1].bytes) = 8
           /\ Len(Emitted[2].bytes) = 6

\* the pass over the example buffer has returned with its two chunks
C11_Witness ==
  /\ pc = "returned"
  /\ data = ExampleBuffer
  /\ Len(Emitted) = 2

\* the pass is scanning and no marker begins at or after the cursor
NoMarkerAhead ==
  /\ pc \in {"SCANNING", "find_next_icon", "find_return"}
  /\ MarkersFrom(data, pos) = {}

\* C12: when the pass is scanning and no marker begins at or after the cursor
\* it goes to HALTED as a normal end, without a warning and without emitting
\* a further artifact; a buffer with no marker at all gives zero chunks and a
\* normal halt.
C12_NotFoundIsNormalEnd ==
  /\ [][ NoMarkerAhead =>
           /\ pc' \in {"find_next_icon", "find_return", "HALTED"}
           /\ artifacts' = artifacts
           /\ chunks' = chunks
           /\ icon_count' = icon_count
           /\ log' = log
           /\ pc' = "HALTED" => halt' \in {"NotFound", "Exhausted"}
       ]_vars
  /\ NoMarkerAhead ~> (pc = "HALTED" /\ CompletedByExhaustion)
  /\ []( (MarkersFrom(data, 0) = {} /\ (pc = "HALTED" \/ result = "True")) =>
            /\ CompletedByExhaustion
            /\ chunks = <<>>
            /\ artifacts = <<>>
            /\ icon_count = 0 )

\* after an extraction the scanner ran over the rest of the buffer, found no
\* marker, and the pass has halted
C12_Witness ==
  /\ pc = "HALTED"
  /\ halt = "NotFound"
  /\ Len(artifacts) >= 1

\* the step accepts a chunk and the write of its artifact fails: the chunk
\* passes the reader and no completely written file is added
WriteFails ==
  /\ pc = "EXTRACTING"
  /\ ~ReaderFails
  /\ Len(SelectSeq(artifacts', LAMBDA a : a.written)) = Len(Emitted)

\* C13: when the write of an accepted chunk's artifact fails the operation
\* ends at once with a failure result: the count is not incremented, no later
\* chunk is extracted, and the result differs from the one returned when the
\* pass halts on IncompleteHeader or OversizedChunk.
C13_WriteFailureIsFatal ==
  /\ [][ /\ WriteFails =>
                /\ pc' = "returned"
                /\ result' = "False"
                /\ icon_count' = icon_count
         /\ pc = "returned" =>
                UNCHANGED << chunks, artifacts, icon_count, result >>
       ]_vars
  /\ []( (pc = "returned" /\ HaltedOnMalformed) => result = "True" )

\* a write has failed after an earlier artifact was written
C13_Witness ==
  /\ pc = "returned"
  /\ halt = "ArtifactWriteFailure"
  /\ result = "False"
  /\ icon_count >= 1
  /\ Len(chunks) = icon_count + 1

C15_SkipAhead ==
  /\ (pc = "find_next_icon" /\ chunks # <<>>) =>
        /\ start_pos = next_offset(Len(chunks))
        /\ fpos >= start_pos
  /\ \A j \in 1..Len(chunks) : \A k \in 1..Len(chunks) :
        j < k =>
           /\ chunks[k].start - 4 >= next_offset(j)
           /\ chunks[j].start < chunks[k].start

\* a marker begins inside the first accepted chunk and a later chunk was
\* accepted
C15_Witness ==
  /\ Len(chunks) >= 2
  /\ \E p \in chunks[1].start .. (next_offset(1) - 1) : HasMarkerAt(data, p)

\* the states of a pass, from the first test of the loop to HALTED
InPass ==
  pc \in {"SCANNING", "find_next_icon", "find_return", "EXTRACTING", "HALTED"}

\* C16 as claimed: in every state of a pass, HALTED included, the cursor pos
\* satisfies 0 <= pos <= len(buffer), and no step of the pass decreases it.
C16_CursorMonotone ==
  /\ [](InPass => (0 <= pos /\ pos <= Len(data)))
  /\ [][InPass => pos' >= pos]_vars

\* C16 as amended: in every state of a pass 0 <= pos <= len(buffer) and no
\* step decreases pos, except that the step in which the scanner returns
\* "not found" sets pos to -1, and pos is -1 in the HALTED state that follows.
C16_CursorMonotoneUntilNotFound ==
  /\ []((InPass /\ halt # "NotFound") => (0 <= pos /\ pos <= Len(data)))
  /\ [](halt = "NotFound" => pos = -1)
  /\ [][(InPass /\ halt' # "NotFound") => pos' >= pos]_vars

\* the cursor moved past a chunk and the pass then halted on "not found"
C16_Witness ==
  /\ pc = "HALTED"
  /\ halt = "NotFound"
  /\ icon_count >= 1
  /\ pos = -1

\* C17: every accepted chunk has length >= 4, enough for its own length
\* field; no chunk of decoded size 0..3 is emitted.
C17_ChunkHoldsLengthField ==
  /\ \A k \in 1..Len(chunks) : chunks[k].size >= 4
  /\ \A k \in 1..Len(Emitted) : Len(Emitted[k].bytes) >= 4

\* the cursor of the iteration that accepted the k-th chunk
cursor_before(k) == IF k = 1 THEN 0 ELSE next_offset(k - 1)

\* C18: every accepted chunk starts right after a marker, and that marker is
\* the first one at or after the cursor of its iteration: no marker begins
\* between the previous next_offset (0 for the first chunk) and start - 4.
C18_FirstMarker ==
  \A k \in 1..Len(chunks) :
     /\ HasMarkerAt(data, chunks[k].start - 4)
     /\ cursor_before(k) <= chunks[k].start - 4
     /\ \A p \in cursor_before(k) .. (chunks[k].start - 5) : ~HasMarkerAt(data, p)

\* a second chunk was accepted after the scanner stepped over bytes that
\* follow the first chunk
C18_Witness ==
  /\ Len(chunks) >= 2
  /\ chunks[2].start - 4 > next_offset(1)

====
